---------------------------- MODULE Spec2Model ----------------------------
(***************************************************************************)
(* Model of pybtc/functions/script.py: the script classifier               *)
(* (parse_script), the disassembler (decode_script), the subscript remover *)
(* (delete_from_script), the push-data codec (op_push_data, read_opcode)   *)
(* and the DER signature validator and decoder                             *)
(* (is_valid_signature_encoding, parse_signature).                         *)
(*                                                                         *)
(* Every operation of the module is a pure function of its arguments, so   *)
(* the state is the last call made: the function called, its arguments,    *)
(* and the value it returned.  A script is a sequence of bytes (0..255);   *)
(* Python's 0-based index i is position i + 1 of the sequence.             *)
(***************************************************************************)
EXTENDS Integers, Sequences, FiniteSets, TLC

VARIABLES fn, script, sub_script, sig, data, flag, result

vars == <<fn, script, sub_script, sig, data, flag, result>>

-----------------------------------------------------------------------------
(* Bounds of the inputs the model enumerates. *)

\* longest script enumerated byte by byte over Alphabet
MaxLen == 3
\* most units in a script built by concatenating units of UnitSet
MaxUnits == 3
\* longest r or s integer of an enumerated signature
MaxIntLen == 2

-----------------------------------------------------------------------------
(* Opcode values.  The literals are the ones script.py compares against;   *)
(* the named ones are OPCODE[...] of pybtc/opcodes.py.                     *)

OP_PUSHDATA1 == 76
OP_PUSHDATA2 == 77
OP_PUSHDATA4 == 78
OP_1 == 81
OP_16 == 96
OP_RETURN == 106
OP_DUP == 118
OP_EQUAL == 135
OP_EQUALVERIFY == 136
OP_HASH160 == 169
OP_CHECKSIG == 172
OP_CHECKSIGVERIFY == 173
OP_CHECKMULTISIG == 174
OP_CHECKMULTISIGVERIFY == 175

\* Python's None, the reqSigs of P2SH and P2WSH
None == -1

-----------------------------------------------------------------------------
(* Python bytes primitives. *)

Min(a, b) == IF a < b THEN a ELSE b

\* b[i:j] for 0 <= i, 0 <= j: a slice is clamped to the buffer, never raises
Slice(b, i, j) == SubSeq(b, Min(i, Len(b)) + 1, Min(j, Len(b)))

\* b[i:]
SliceFrom(b, i) == Slice(b, i, Len(b))

\* b[i] for 0 <= i is defined exactly when i < len(b); otherwise IndexError
InBuf(b, i) == i >= 0 /\ i < Len(b)

\* b[i], used only where InBuf(b, i) holds
At(b, i) == b[i + 1]

\* b[-1] and b[-2]
Last(b) == b[Len(b)]
Last2(b) == b[Len(b) - 1]

\* n copies of byte f
Fill(n, f) == [i \in 1..n |-> f]

\* struct.unpack('<H', b)[0] and struct.unpack('<L', b)[0]: little-endian
\* value, defined exactly when len(b) is 2 (resp. 4), otherwise struct.error
UnpackOk(b, width) == Len(b) = width
UnpackH(b) == b[1] + 256 * b[2]

\* an unsigned 32-bit value; the model's integers are signed 32-bit, so a
\* value of 2^30 or more is held as 2^30: the code only adds it to a cursor
\* and slices with it, and no buffer of the model is that long
UnpackL(b) ==
    IF b[4] >= 64
    THEN 1073741824
    ELSE b[1] + 256 * b[2] + 65536 * b[3] + 16777216 * b[4]

\* x & 0x80 as a truth value
HighBit(x) == x >= 128

\* hash160 of a byte string: an external collaborator, kept uninterpreted
hash160(b) == <<"hash160", b>>

-----------------------------------------------------------------------------
(* parse_script: the script classifier. *)

\* an exception that leaves the function
Raised == [type |-> "RAISED"]

\* the OP_RETURN templates (script[0] is OP_RETURN)
NullData(s) ==
    LET l == Len(s)
        nonstd == [nType |-> 8, type |-> "NULL_DATA_NON_STANDARD",
                   reqSigs |-> 0, script |-> s]
    IN  IF l = 1
        THEN [nType |-> 3, type |-> "NULL_DATA", reqSigs |-> 0, data |-> <<>>]
        ELSE IF At(s, 1) < OP_PUSHDATA1
        THEN IF At(s, 1) = l - 2
             THEN [nType |-> 3, type |-> "NULL_DATA", reqSigs |-> 0,
                   data |-> SliceFrom(s, 2)]
             ELSE nonstd
        ELSE IF At(s, 1) = OP_PUSHDATA1
        THEN IF l > 2 /\ At(s, 2) = l - 3 /\ At(s, 2) <= 80
             THEN [nType |-> 3, type |-> "NULL_DATA", reqSigs |-> 0,
                   data |-> SliceFrom(s, 3)]
             ELSE nonstd
        ELSE nonstd

\* the push-counting loop of the bare-multisig template: c, s = 0, 1 on entry
RECURSIVE MultisigCount(_, _, _)
MultisigCount(scr, s, c) ==
    IF Len(scr) - 2 - s > 0
    THEN IF At(scr, s) < OP_PUSHDATA1
         THEN MultisigCount(scr, s + At(scr, s) + 1, c + 1)
         ELSE 0
    ELSE c

\* the outcome of the body of a try block of the generic walk: the cursor
\* after the push, or an exception (IndexError, struct.error)
TryPushdata1(scr, s) ==
    IF InBuf(scr, s + 1)
    THEN [exc |-> FALSE, s |-> s + 1 + At(scr, s + 1)]
    ELSE [exc |-> TRUE, s |-> s]

TryPushdata2(scr, s) ==
    LET f == Slice(scr, s + 1, s + 3)
    IN  IF UnpackOk(f, 2)
        THEN [exc |-> FALSE, s |-> s + 2 + UnpackH(f)]
        ELSE [exc |-> TRUE, s |-> s]

TryPushdata4(scr, s) ==
    LET f == Slice(scr, s + 1, s + 5)
    IN  IF UnpackOk(f, 4)
        THEN [exc |-> FALSE, s |-> s + 4 + UnpackL(f)]
        ELSE [exc |-> TRUE, s |-> s]

\* the handler missing: the exception leaves parse_script
ExceptBreak_Unhandled(t) == IF t.exc THEN "raise" ELSE "run"

\* try: ... except: break
ExceptBreak(t) == IF t.exc THEN "break" ELSE "run"

\* the small-integer branch: the (n, m) threshold tracker and `last`
SmallInt(st, v) ==
    IF st.n = 0 THEN [st EXCEPT !.n = v]
    ELSE IF st.m = 0 THEN [st EXCEPT !.n = v, !.m = 0]
    ELSE IF st.n > st.m THEN [st EXCEPT !.n = v, !.m = 0]
    ELSE IF st.m = v THEN [st EXCEPT !.last = IF st.last # 0 THEN 0 ELSE 2]
    ELSE st

\* the raw-push branch
RawPush(st, b) ==
    LET m1 == st.m + 1
    IN  IF m1 > 16
        THEN [st EXCEPT !.s = st.s + b, !.m = 0, !.n = 0]
        ELSE [st EXCEPT !.s = st.s + b, !.m = m1]

\* the branch of every other opcode
OtherOp(st, b) ==
    LET r == IF b = OP_CHECKSIG \/ b = OP_CHECKSIGVERIFY
             THEN st.req_sigs + 1
             ELSE IF b \in {OP_CHECKMULTISIG, OP_CHECKMULTISIGVERIFY}
             THEN IF st.last # 0 THEN st.req_sigs + st.n ELSE st.req_sigs + 20
             ELSE st.req_sigs
    IN  [st EXCEPT !.req_sigs = r, !.n = 0, !.m = 0]

\* the two statements that end an iteration: if last: last -= 1; s += 1
EndIteration(st) ==
    [st EXCEPT !.last = IF st.last # 0 THEN st.last - 1 ELSE 0, !.s = st.s + 1]

\* one iteration of the generic walk
WalkStep(scr, st) ==
    LET b == At(scr, st.s)
        try == IF b = OP_PUSHDATA1 THEN TryPushdata1(scr, st.s)
               ELSE IF b = OP_PUSHDATA2 THEN TryPushdata2(scr, st.s)
               ELSE TryPushdata4(scr, st.s)
    IN  IF b >= OP_1 /\ b <= OP_16 THEN EndIteration(SmallInt(st, b - 80))
        ELSE IF b < OP_PUSHDATA1 THEN EndIteration(RawPush(st, b))
        ELSE IF b \in {OP_PUSHDATA1, OP_PUSHDATA2, OP_PUSHDATA4}
        THEN IF ExceptBreak(try) = "run"
             THEN EndIteration([st EXCEPT !.s = try.s])
             ELSE [st EXCEPT !.status = ExceptBreak(try)]
        ELSE EndIteration(OtherOp(st, b))

\* s, m, n, last, req_sigs = 0, 0, 0, 0, 0
WalkInit == [s |-> 0, m |-> 0, n |-> 0, last |-> 0, req_sigs |-> 0,
             status |-> "run"]

\* while l - s > 0: ...
RECURSIVE GenericWalk(_, _)
GenericWalk(scr, st) ==
    IF st.status # "run" \/ Len(scr) - st.s <= 0
    THEN st
    ELSE GenericWalk(scr, WalkStep(scr, st))

\* the offsets the cursor s of the generic walk visits at the head of the loop
RECURSIVE GenericCursors(_, _)
GenericCursors(scr, st) ==
    IF st.status # "run" \/ Len(scr) - st.s <= 0
    THEN <<>>
    ELSE <<st.s>> \o GenericCursors(scr, WalkStep(scr, st))

\* the generic fallback: NON_STANDARD with the tally of the walk
Generic(scr) ==
    LET w == GenericWalk(scr, WalkInit)
    IN  IF w.status = "raise"
        THEN Raised
        ELSE [nType |-> 7, type |-> "NON_STANDARD", reqSigs |-> w.req_sigs,
              script |-> scr]

\* the bare-multisig template, falling through to the generic walk
MultisigOrGeneric(scr) ==
    IF At(scr, 0) >= OP_1 /\ At(scr, 0) <= OP_16 /\ Last(scr) = OP_CHECKMULTISIG
    THEN IF ~InBuf(scr, Len(scr) - 2)
         THEN Raised
         ELSE IF /\ Last2(scr) >= OP_1
                 /\ Last2(scr) <= OP_16
                 /\ Last2(scr) >= At(scr, 0)
                 /\ MultisigCount(scr, 1, 0) = Last2(scr) - 80
         THEN [nType |-> 4, type |-> "MULTISIG", reqSigs |-> At(scr, 0) - 80,
               pubKeys |-> MultisigCount(scr, 1, 0), script |-> scr]
         ELSE Generic(scr)
    ELSE Generic(scr)

parse_script(scr, segwit) ==
    LET l == Len(scr)
    IN  IF scr = <<>>
        THEN [nType |-> 7, type |-> "NON_STANDARD", reqSigs |-> 0,
              script |-> <<>>]
        ELSE IF segwit /\ l = 22 /\ At(scr, 0) = 0
        THEN [nType |-> 5, type |-> "P2WPKH", reqSigs |-> 1,
              addressHash |-> SliceFrom(scr, 2)]
        ELSE IF segwit /\ l = 34 /\ At(scr, 0) = 0
        THEN [nType |-> 6, type |-> "P2WSH", reqSigs |-> None,
              addressHash |-> SliceFrom(scr, 2)]
        ELSE IF /\ l = 25
                /\ Slice(scr, 0, 2) = <<OP_DUP, OP_HASH160>>
                /\ Slice(scr, l - 2, l) = <<OP_EQUALVERIFY, OP_CHECKSIG>>
        THEN [nType |-> 0, type |-> "P2PKH", reqSigs |-> 1,
              addressHash |-> Slice(scr, 3, l - 2)]
        ELSE IF l = 23 /\ At(scr, 0) = OP_HASH160 /\ Last(scr) = OP_EQUAL
        THEN [nType |-> 1, type |-> "P2SH", reqSigs |-> None,
              addressHash |-> Slice(scr, 2, l - 1)]
        ELSE IF (l = 67 \/ l = 35) /\ Last(scr) = OP_CHECKSIG
        THEN [nType |-> 2, type |-> "PUBKEY", reqSigs |-> 1,
              addressHash |-> hash160(Slice(scr, 1, l - 1))]
        ELSE IF At(scr, 0) = OP_RETURN
        THEN NullData(scr)
        ELSE MultisigOrGeneric(scr)

-----------------------------------------------------------------------------
(* decode_script: the disassembler.  The returned string is ' '.join of    *)
(* the tokens; no token holds a space, so the string is modelled by the    *)
(* sequence of its tokens.                                                 *)

\* RAW_OPCODE has a name for the value (pybtc/opcodes.py): the opcodes up to
\* OP_NOP10 and the template-matching pseudo opcodes
InOpcodeTable(b) == b <= 185 \/ b \in {250, 251, 253, 254, 255}

\* "OP_PUSHBYTES[n]", "OP_PUSHDATA1[n]", ..., "[n]", a payload in hex, and
\* the name RAW_OPCODE gives an opcode value
Tok(kind, n, hex) == [kind |-> kind, n |-> n, hex |-> hex]
TokLen(kind, n) == Tok(kind, n, <<>>)
TokHex(bytes) == Tok("hex", 0, bytes)
TokName(b) == Tok("RAW_OPCODE", b, <<>>)
SCRIPT_DECODE_FAILED == Tok("[SCRIPT_DECODE_FAILED]", 0, <<>>)

\* except: append("[SCRIPT_DECODE_FAILED]"), entered with the tokens
\* appended so far
ExceptAppend(toks) == Append(toks, SCRIPT_DECODE_FAILED)

\* the tokens and the cursor advance of a PUSHDATA1/2/4 unit whose length
\* field was read as ld
PushdataTokens(scr, asm, s, b, ld, hdr) ==
    IF asm
    THEN <<TokLen(CASE b = OP_PUSHDATA1 -> "OP_PUSHDATA1"
                    [] b = OP_PUSHDATA2 -> "OP_PUSHDATA2"
                    [] OTHER -> "OP_PUSHDATA4", ld),
           TokHex(Slice(scr, s + hdr, s + hdr + ld))>>
    ELSE <<TokName(b), TokLen("[n]", ld)>>

\* while l - s > 0: ... inside try; `cur` is the offsets the cursor s has
\* visited at the head of the loop
RECURSIVE DecodeRun(_, _, _, _, _)
DecodeRun(scr, asm, s, toks, cur) ==
    IF Len(scr) - s <= 0
    THEN [toks |-> toks, cursors |-> cur]
    ELSE LET b == At(scr, s)
             here == Append(cur, s)
             failed(tk) == [toks |-> ExceptAppend(tk), cursors |-> here]
         IN  IF b < OP_PUSHDATA1 /\ b # 0
             THEN DecodeRun(scr, asm, s + b + 1,
                     toks \o (IF asm
                              THEN <<TokLen("OP_PUSHBYTES", b),
                                     TokHex(Slice(scr, s + 1, s + 1 + b))>>
                              ELSE <<TokLen("[n]", b)>>),
                     here)
             ELSE IF b = OP_PUSHDATA1
             THEN IF ~InBuf(scr, s + 1)
                  THEN \* non-asm appends the opcode name before reading ld
                       failed(IF asm THEN toks ELSE Append(toks, TokName(b)))
                  ELSE DecodeRun(scr, asm, s + 1 + At(scr, s + 1) + 1,
                          toks \o PushdataTokens(scr, asm, s, b,
                                                 At(scr, s + 1), 2),
                          here)
             ELSE IF b = OP_PUSHDATA2
             THEN LET f == Slice(scr, s + 1, s + 3)
                  IN  IF ~UnpackOk(f, 2)
                      THEN failed(toks)
                      ELSE DecodeRun(scr, asm, s + 2 + 1 + UnpackH(f),
                              toks \o PushdataTokens(scr, asm, s, b,
                                                     UnpackH(f), 3),
                              here)
             ELSE IF b = OP_PUSHDATA4
             THEN LET f == Slice(scr, s + 1, s + 5)
                  IN  IF ~UnpackOk(f, 4)
                      THEN failed(toks)
                      ELSE DecodeRun(scr, asm, s + 5 + 1 + UnpackL(f),
                              toks \o PushdataTokens(scr, asm, s, b,
                                                     UnpackL(f), 5),
                              here)
             ELSE IF ~InOpcodeTable(b)
             THEN failed(toks)
             ELSE DecodeRun(scr, asm, s + 1, Append(toks, TokName(b)), here)

\* the tokens of the walk
DecodeWalk(scr, asm, s, toks) == DecodeRun(scr, asm, s, toks, <<>>).toks

\* the offsets the cursor of decode_script visits
DecodeCursors(scr, asm) == DecodeRun(scr, asm, 0, <<>>, <<>>).cursors

decode_script(scr, asm) == DecodeWalk(scr, asm, 0, <<>>)

-----------------------------------------------------------------------------
(* delete_from_script: the subscript remover.  `stack` holds the sizes of  *)
(* the units of the pending window script[k:s]; `result` is the bytes      *)
(* appended so far (b''.join(result)).                                     *)

\* the size the walk gives the unit at s, or an exception (IndexError,
\* struct.error) from reading its length field
UnitSize(scr, s) ==
    LET b == At(scr, s)
    IN  IF b < OP_PUSHDATA1 /\ b # 0
        THEN [exc |-> FALSE, size |-> b + 1]
        ELSE IF b = OP_PUSHDATA1
        THEN IF InBuf(scr, s + 1)
             THEN [exc |-> FALSE, size |-> 1 + At(scr, s + 1)]
             ELSE [exc |-> TRUE, size |-> 0]
        ELSE IF b = OP_PUSHDATA2
        THEN IF UnpackOk(Slice(scr, s, s + 2), 2)
             THEN [exc |-> FALSE, size |-> 2 + UnpackH(Slice(scr, s, s + 2))]
             ELSE [exc |-> TRUE, size |-> 0]
        ELSE IF b = OP_PUSHDATA4
        THEN IF UnpackOk(Slice(scr, s, s + 4), 4)
             THEN [exc |-> FALSE, size |-> 4 + UnpackL(Slice(scr, s, s + 4))]
             ELSE [exc |-> TRUE, size |-> 0]
        ELSE [exc |-> FALSE, size |-> 1]

\* if s - k >= ls: ... (the window compare that ends an iteration)
WindowStep(scr, sub, st) ==
    LET ls == Len(sub)
        s == st.s
        k == st.k
    IN  IF s - k >= ls
        THEN IF Slice(Slice(scr, k, s), 0, ls) = sub
             THEN \* a match: keep the bytes of the window after it, pop the
                  \* whole window
                  [st EXCEPT !.result = IF s - k > ls
                                        THEN st.result \o Slice(scr, k + ls, s)
                                        ELSE st.result,
                             !.stack = <<>>,
                             !.k = s]
             ELSE \* a mismatch: emit the oldest unit
                  [st EXCEPT !.result = st.result
                                          \o Slice(scr, k, k + Head(st.stack)),
                             !.stack = Tail(st.stack),
                             !.k = k + Head(st.stack)]
        ELSE st

\* while l - s > 0: ...
RECURSIVE RemoveWalk(_, _, _)
RemoveWalk(scr, sub, st) ==
    IF st.raised \/ Len(scr) - st.s <= 0
    THEN st
    ELSE LET u == UnitSize(scr, st.s)
         IN  IF u.exc
             THEN [st EXCEPT !.raised = TRUE]
             ELSE RemoveWalk(scr, sub,
                     WindowStep(scr, sub,
                         [st EXCEPT !.stack = Append(st.stack, u.size),
                                    !.s = st.s + u.size]))

\* the offsets the cursor s of delete_from_script visits at the head of the
\* loop, and whether reading a length field raised
RECURSIVE RemoveCursors(_, _)
RemoveCursors(scr, s) ==
    IF Len(scr) - s <= 0
    THEN [cursors |-> <<>>, raised |-> FALSE]
    ELSE LET u == UnitSize(scr, s)
         IN  IF u.exc
             THEN [cursors |-> <<s>>, raised |-> TRUE]
             ELSE LET rest == RemoveCursors(scr, s + u.size)
                  IN  [cursors |-> <<s>> \o rest.cursors,
                       raised |-> rest.raised]

\* the compare after the loop
FinalCompare(scr, sub, st) ==
    LET ls == Len(sub)
    IN  IF Slice(Slice(scr, st.k, st.s), 0, ls) = sub
        THEN IF st.s - st.k > ls
             THEN st.result \o Slice(scr, st.k + ls, st.s)
             ELSE st.result
        ELSE st.result \o Slice(scr, st.k, st.k + ls)

delete_from_script(scr, sub) ==
    IF sub = <<>>
    THEN [raised |-> FALSE, out |-> scr]
    ELSE LET st == RemoveWalk(scr, sub,
                     [s |-> 0, k |-> 0, stack |-> <<>>, result |-> <<>>,
                      raised |-> FALSE])
         IN  IF st.raised
             THEN [raised |-> TRUE, out |-> <<>>]
             ELSE [raised |-> FALSE, out |-> FinalCompare(scr, sub, st)]

-----------------------------------------------------------------------------
(* op_push_data and read_opcode: the push-data codec. *)

\* bytes([n]) is defined for n <= 255
RECURSIVE LittleEndian(_)
LittleEndian(n) ==
    IF n < 256 THEN <<n>> ELSE <<n % 256>> \o LittleEndian(n \div 256)

\* int_to_bytes(n, byteorder="little") of pybtc/functions/tools.py: the
\* shortest little-endian encoding of n
int_to_bytes_little(n) == LittleEndian(n)

op_push_data(d) ==
    IF Len(d) <= 75
    THEN <<Len(d)>> \o d
    ELSE IF Len(d) <= 255
    THEN <<OP_PUSHDATA1>> \o <<Len(d)>> \o d
    ELSE IF Len(d) <= 65535
    THEN <<OP_PUSHDATA2>> \o int_to_bytes_little(Len(d)) \o d
    ELSE <<OP_PUSHDATA4>> \o int_to_bytes_little(Len(d)) \o d

\* stream.read(n) at position pos: the bytes read (fewer than n at the end
\* of the stream) 
Read(buf, pos, n) == Slice(buf, pos, pos + n)

\* b[0] == OP_PUSHDATA1, with b[0] an int and OP_PUSHDATA1 the bytes object
\* that op_push_data joins into its result: in Python an int never equals a
\* bytes object
IntEqualsBytes(i, bytes) == FALSE

\* what read_opcode returns, and where it leaves the stream
Unit(op, has_data, payload, pos) ==
    [raised |-> FALSE, op |-> op, has_data |-> has_data, data |-> payload,
     pos |-> pos]

read_opcode(buf, pos) ==
    LET b == Read(buf, pos, 1)
    IN  IF b = <<>>
        THEN Unit(<<>>, FALSE, <<>>, pos)
        ELSE IF b[1] <= 75
        THEN Unit(b, TRUE, Read(buf, pos + 1, b[1]),
                  pos + 1 + Len(Read(buf, pos + 1, b[1])))
        ELSE IF IntEqualsBytes(b[1], <<OP_PUSHDATA1>>)
        THEN IF Read(buf, pos + 1, 1) = <<>>
             THEN [raised |-> TRUE]
             ELSE LET n == Read(buf, pos + 1, 1)[1]
                  IN  Unit(b, TRUE, Read(buf, pos + 2, n),
                           pos + 2 + Len(Read(buf, pos + 2, n)))
        ELSE IF \/ IntEqualsBytes(b[1], <<OP_PUSHDATA2>>)
                \/ IntEqualsBytes(b[1], <<OP_PUSHDATA4>>)
        THEN \* unpack("<H", read(2)[0]): unpack of an int raises TypeError
             [raised |-> TRUE]
        ELSE Unit(b, FALSE, <<>>, pos + 1)

-----------------------------------------------------------------------------
(* is_valid_signature_encoding and parse_signature: the DER signature      *)
(* validator and decoder.                                                  *)

\* the rule against a redundant leading zero:
\* (len > 1) and (sig[off] == 0x00) and (not sig[off + 1] & 0x80)
NullPadded_AnyLength(g, off, len) == At(g, off) = 0 /\ ~HighBit(At(g, off + 1))

NullPadded(g, off, len) ==
    len > 1 /\ At(g, off) = 0 /\ ~HighBit(At(g, off + 1))

\* the checks that follow the read of len_s, the same in both functions;
\* "IndexError" where a check would index outside sig
IntegerChecks(g, len_r, len_s) ==
    IF len_r + len_s + 7 # Len(g) THEN "False"
    ELSE IF At(g, 2) # 2 THEN "False"
    ELSE IF len_r = 0 THEN "False"
    ELSE IF HighBit(At(g, 4)) THEN "False"
    ELSE IF NullPadded(g, 4, len_r) THEN "False"
    ELSE IF ~InBuf(g, len_r + 4) THEN "IndexError"
    ELSE IF At(g, len_r + 4) # 2 THEN "False"
    ELSE IF len_s = 0 THEN "False"
    ELSE IF ~InBuf(g, len_r + 6) THEN "IndexError"
    ELSE IF HighBit(At(g, len_r + 6)) THEN "False"
    ELSE IF len_s > 1 /\ ~InBuf(g, len_r + 7) THEN "IndexError"
    ELSE IF NullPadded(g, len_r + 6, len_s) THEN "False"
    ELSE "True"

is_valid_signature_encoding(g) ==
    IF Len(g) < 9 \/ Len(g) > 73 THEN "False"
    ELSE IF At(g, 0) # 48 THEN "False"
    ELSE IF At(g, 1) # Len(g) - 3 THEN "False"
    ELSE IF 5 + At(g, 3) >= Len(g) THEN "False"
    ELSE IF ~InBuf(g, 5 + At(g, 3)) THEN "IndexError"
    ELSE IntegerChecks(g, At(g, 3), At(g, 5 + At(g, 3)))

\* parse_signature: the same checks raising ValueError, then (r, s) with
\* r = sig[5:4 + len_r] and s = sig[len_r + 6:-1]
parse_signature(g) ==
    LET v == is_valid_signature_encoding(g)
        len_r == At(g, 3)
    IN  IF v = "True"
        THEN [raised |-> "",
              r |-> Slice(g, 5, 4 + len_r),
              s |-> Slice(g, len_r + 6, Len(g) - 1)]
        ELSE [raised |-> IF v = "False" THEN "ValueError" ELSE v,
              r |-> <<>>, s |-> <<>>]

-----------------------------------------------------------------------------
(* The inputs the model enumerates. *)

\* the sequences of at most n elements of S
RECURSIVE SeqsUpTo(_, _)
SeqsUpTo(S, n) ==
    IF n = 0
    THEN {<<>>}
    ELSE LET P == SeqsUpTo(S, n - 1)
         IN  P \cup {Append(p, x) : p \in {q \in P : Len(q) = n - 1}, x \in S}

\* the concatenations of at most n members of S
RECURSIVE Concats(_, _)
Concats(S, n) ==
    IF n = 0
    THEN {<<>>}
    ELSE LET P == Concats(S, n - 1)
         IN  P \cup {p \o u : p \in P, u \in S}

\* OP_0, raw-push lengths, PUSHDATA1/2/4, OP_1, OP_2, OP_RETURN,
\* OP_CODESEPARATOR, OP_CHECKSIG, OP_CHECKMULTISIG, and a value with no name
Alphabet == {0, 1, 2, 76, 77, 78, 81, 82, 106, 171, 172, 174, 186}

ByteScripts == SeqsUpTo(Alphabet, MaxLen)

\* well-formed units: one-byte opcodes, raw pushes, PUSHDATA1/2/4 pushes
UnitSet ==
    { <<0>>, <<81>>, <<171>>, <<172>>, <<174>>,
      <<1, 171>>, <<2, 172, 171>>,
      <<76, 1, 171>>, <<77, 1, 0, 171>>, <<78, 1, 0, 0, 0, 171>> }

\* pushes cut short in their length field or in their payload
TruncatedSet ==
    { <<5, 171>>, <<76>>, <<76, 2, 171>>, <<77, 1>>, <<77, 2, 0, 171>>,
      <<78, 1, 0, 0>>, <<78, 2, 0, 0, 0, 171>> }

PieceScripts == Concats(UnitSet \cup TruncatedSet, MaxUnits)

\* scripts of the lengths the fixed templates test, with the bytes the
\* templates look at (and the one next to them) varied
TemplateScripts ==
    { <<h0, h1, h2>> \o Fill(l - 5, 17) \o <<t0, t1>> :
        l \in {22, 23, 24, 25, 34, 35, 67},
        h0 \in {0, 33, 65, OP_1, OP_RETURN, OP_DUP, OP_HASH160},
        h1 \in {20, OP_HASH160},
        h2 \in {20, 21},
        t0 \in {17, OP_EQUALVERIFY},
        t1 \in {OP_EQUAL, OP_CHECKSIG, OP_CHECKMULTISIG} }

\* OP_m <interior> OP_n OP_CHECKMULTISIG[VERIFY], the interior built of raw
\* pushes, a zero-length push, a PUSHDATA1 push, an overrunning push and a
\* non-push opcode
MultisigScripts ==
    { <<m>> \o i \o <<n, t>> :
        m \in {OP_1, OP_1 + 1},
        i \in Concats({ <<1, 171>>, <<2, 171, 171>>, <<0>>, <<76, 1, 171>>,
                        <<5>>, <<172>> }, MaxUnits - 1),
        n \in {OP_1, OP_1 + 1, OP_1 + 2},
        t \in {OP_CHECKMULTISIG, OP_CHECKMULTISIGVERIFY} }

ScriptInputs ==
    ByteScripts \cup PieceScripts \cup TemplateScripts \cup MultisigScripts

\* the sub-scripts delete_from_script is asked to remove
SubScripts ==
    { <<>>, <<171>>, <<172>>, <<172, 172>>, <<171, 172>>, <<1, 171>> }

\* payloads of the lengths around which op_push_data changes its header
PayloadLengths == (0..MaxLen) \cup (74..77) \cup (254..257)
Payloads == { Fill(n, f) : n \in PayloadLengths, f \in {0, 76, 171, 255} }

\* signatures: the envelope with each of its fields right or wrong
IntegerBytes ==
    SeqsUpTo({0, 1, 128}, MaxIntLen) \cup {Fill(33, 1), Fill(34, 1)}

SigInputs ==
    { <<t0, IF tl THEN 7 + Len(r) + Len(s) - 3 ELSE 7 + Len(r) + Len(s) - 2,
        mk[1], Len(r) + dr>> \o r \o <<mk[2], Len(s) + ds>> \o s \o <<1>> :
        t0 \in {48, 49}, tl \in BOOLEAN,
        mk \in {<<2, 2>>, <<3, 2>>, <<2, 3>>},
        r \in IntegerBytes, s \in IntegerBytes,
        dr \in {0, 1, 100}, ds \in {0, 1} }

-----------------------------------------------------------------------------
(* The calls.  A behaviour starts with the arguments of a call chosen and  *)
(* takes the step that makes the call and records what it returned.        *)

NoResult == [type |-> "none"]

Call_parse_script ==
    /\ fn = "input"
    /\ fn' = "parse_script"
    /\ result' = parse_script(script, flag)
    /\ UNCHANGED <<script, sub_script, sig, data, flag>>

Call_decode_script ==
    /\ fn = "input"
    /\ fn' = "decode_script"
    /\ result' = decode_script(script, flag)
    /\ UNCHANGED <<script, sub_script, sig, data, flag>>

Call_delete_from_script ==
    /\ fn = "input"
    /\ fn' = "delete_from_script"
    /\ result' = delete_from_script(script, sub_script)
    /\ UNCHANGED <<script, sub_script, sig, data, flag>>

Call_op_push_data ==
    /\ fn = "input"
    /\ fn' = "op_push_data"
    /\ result' = op_push_data(data)
    /\ UNCHANGED <<script, sub_script, sig, data, flag>>

\* read_opcode(get_stream(script)) on the encoding op_push_data returned
Call_read_opcode ==
    /\ fn = "op_push_data"
    /\ fn' = "read_opcode"
    /\ script' = result
    /\ result' = read_opcode(result, 0)
    /\ UNCHANGED <<sub_script, sig, data, flag>>

Call_is_valid_signature_encoding ==
    /\ fn = "input"
    /\ fn' = "is_valid_signature_encoding"
    /\ result' = is_valid_signature_encoding(sig)
    /\ UNCHANGED <<script, sub_script, sig, data, flag>>

Call_parse_signature ==
    /\ fn = "input"
    /\ fn' = "parse_signature"
    /\ result' = parse_signature(sig)
    /\ UNCHANGED <<script, sub_script, sig, data, flag>>

InitWith(scripts, subs, sigs, payloads, flags) ==
    /\ fn = "input"
    /\ script \in scripts
    /\ sub_script \in subs
    /\ sig \in sigs
    /\ data \in payloads
    /\ flag \in flags
    /\ result = NoResult

\* the classifier: flag is segwit
InitClassifier == InitWith(ScriptInputs, {<<>>}, {<<>>}, {<<>>}, BOOLEAN)
SpecClassifier == InitClassifier /\ [][Call_parse_script]_vars

\* the disassembler: flag is asm
InitDisassembler ==
    InitWith(ByteScripts \cup PieceScripts, {<<>>}, {<<>>}, {<<>>}, BOOLEAN)
SpecDisassembler == InitDisassembler /\ [][Call_decode_script]_vars

\* the subscript remover
InitRemover ==
    InitWith(ByteScripts \cup PieceScripts, SubScripts, {<<>>}, {<<>>}, {FALSE})
SpecRemover == InitRemover /\ [][Call_delete_from_script]_vars

\* the push-data codec
InitPushData == InitWith({<<>>}, {<<>>}, {<<>>}, Payloads, {FALSE})
NextPushData == Call_op_push_data \/ Call_read_opcode
SpecPushData == InitPushData /\ [][NextPushData]_vars

\* the signature validator and decoder
InitSignature == InitWith({<<>>}, {<<>>}, SigInputs, {<<>>}, {FALSE})
NextSignature == Call_is_valid_signature_encoding \/ Call_parse_signature
SpecSignature == InitSignature /\ [][NextSignature]_vars

\* the cursors of the three walks: each call runs the function's loop and
\* records the offsets its cursor visits
Walk_parse_script ==
    /\ fn = "input"
    /\ script # <<>>
    /\ parse_script(script, flag).type = "NON_STANDARD"
    /\ fn' = "walk_parse_script"
    /\ result' = [type |-> "walk",
                  cursors |-> GenericCursors(script, WalkInit),
                  raised |-> FALSE]
    /\ UNCHANGED <<script, sub_script, sig, data, flag>>

Walk_decode_script ==
    /\ fn = "input"
    /\ fn' = "walk_decode_script"
    /\ result' = [type |-> "walk",
                  cursors |-> DecodeCursors(script, flag),
                  raised |-> FALSE]
    /\ UNCHANGED <<script, sub_script, sig, data, flag>>

Walk_delete_from_script ==
    /\ fn = "input"
    /\ sub_script # <<>>
    /\ fn' = "walk_delete_from_script"
    /\ result' = [type |-> "walk"] @@ RemoveCursors(script, 0)
    /\ UNCHANGED <<script, sub_script, sig, data, flag>>

InitWalks ==
    InitWith(ByteScripts \cup PieceScripts, {<<171>>}, {<<>>}, {<<>>}, BOOLEAN)
NextWalks ==
    \/ Walk_parse_script
    \/ Walk_decode_script
    \/ Walk_delete_from_script
SpecWalks == InitWalks /\ [][NextWalks]_vars

\* every call of the module
Init ==
    \/ InitClassifier
    \/ InitDisassembler
    \/ InitRemover
    \/ InitPushData
    \/ InitSignature

Next ==
    \/ Call_parse_script
    \/ Call_decode_script
    \/ Call_delete_from_script
    \/ Call_op_push_data
    \/ Call_read_opcode
    \/ Call_is_valid_signature_encoding
    \/ Call_parse_signature

Spec == Init /\ [][Next]_vars

-----------------------------------------------------------------------------
(* The push-data unit of the specification, against which the walks are    *)
(* judged: a raw push of n bytes (0x01..0x4b) is 1 + n bytes, PUSHDATA1 is *)
(* 2 + n, PUSHDATA2 is 3 + n, PUSHDATA4 is 5 + n, every other opcode is 1. *)

\* the length of the unit that starts at pos, 0 when its length field or
\* its payload runs past the end of the buffer
UnitLen(scr, pos) ==
    LET b == At(scr, pos)
        l == Len(scr)
    IN  IF b >= 1 /\ b < OP_PUSHDATA1
        THEN IF pos + 1 + b <= l THEN 1 + b ELSE 0
        ELSE IF b = OP_PUSHDATA1
        THEN IF pos + 2 <= l /\ pos + 2 + At(scr, pos + 1) <= l
             THEN 2 + At(scr, pos + 1)
             ELSE 0
        ELSE IF b = OP_PUSHDATA2
        THEN IF pos + 3 <= l /\ pos + 3 + UnpackH(Slice(scr, pos + 1, pos + 3)) <= l
             THEN 3 + UnpackH(Slice(scr, pos + 1, pos + 3))
             ELSE 0
        ELSE IF b = OP_PUSHDATA4
        THEN IF pos + 5 <= l /\ pos + 5 + UnpackL(Slice(scr, pos + 1, pos + 5)) <= l
             THEN 5 + UnpackL(Slice(scr, pos + 1, pos + 5))
             ELSE 0
        ELSE 1

\* the offsets at which the units of scr start, up to and including the
\* first malformed one
RECURSIVE UnitOffsets(_, _)
UnitOffsets(scr, pos) ==
    IF pos >= Len(scr) THEN {}
    ELSE IF UnitLen(scr, pos) = 0 THEN {pos}
    ELSE {pos} \cup UnitOffsets(scr, pos + UnitLen(scr, pos))

Malformed(scr) == {k \in UnitOffsets(scr, 0) : UnitLen(scr, k) = 0}

\* scr is a concatenation of well-formed units
WellFormed(scr) == Malformed(scr) = {}

\* the offset of the malformed push of scr (there is at most one: the walk
\* of the units stops at it)
FirstMalformed(scr) == CHOOSE k \in Malformed(scr) : TRUE

\* the byte at a unit start is an opcode, not the head of a push
IsPushHead(b) == b >= 1 /\ b <= OP_PUSHDATA4

ClaimedTypes ==
    {"P2PKH", "P2SH", "P2WPKH", "P2WSH", "PUBKEY", "NULL_DATA",
     "NULL_DATA_NON_STANDARD", "MULTISIG", "NON_STANDARD"}

-----------------------------------------------------------------------------
(* C1 *)

IsP2PKHTemplate(scr) ==
    /\ Len(scr) = 25
    /\ Slice(scr, 0, 3) = <<118, 169, 20>>
    /\ Slice(scr, 23, 25) = <<136, 172>>

IsP2SHTemplate(scr) ==
    /\ Len(scr) = 23
    /\ Slice(scr, 0, 2) = <<169, 20>>
    /\ scr[23] = 135

IsPubkeyTemplate(scr) ==
    \/ Len(scr) = 67 /\ scr[1] = 65 /\ scr[67] = 172
    \/ Len(scr) = 35 /\ scr[1] = 33 /\ scr[35] = 172

\* C1: with witness recognition on, parse_script returns P2PKH (reqSigs 1,
\* addressHash h) exactly for the 25 bytes 76 a9 14 h[20] 88 ac, P2SH
\* (reqSigs None, addressHash h) exactly for the 23 bytes a9 14 h[20] 87, and
\* PUBKEY (reqSigs 1) exactly for a 0x41 push of 65 bytes or a 0x21 push of
\* 33 bytes followed by ac; a script differing from the template in any byte
\* position, the push-length byte included, does not get the type.
C1_ExactTemplates ==
    (fn = "parse_script" /\ flag) =>
        /\ result.type = "P2PKH" <=> IsP2PKHTemplate(script)
        /\ result.type = "P2PKH" =>
              result.reqSigs = 1 /\ result.addressHash = Slice(script, 3, 23)
        /\ result.type = "P2SH" <=> IsP2SHTemplate(script)
        /\ result.type = "P2SH" =>
              result.reqSigs = None /\ result.addressHash = Slice(script, 2, 22)
        /\ result.type = "PUBKEY" <=> IsPubkeyTemplate(script)
        /\ result.type = "PUBKEY" => result.reqSigs = 1

-----------------------------------------------------------------------------
(* C2 *)

\* the number of raw-push units (length byte 0x01..0x4b and that many
\* payload bytes) that exactly fill `interior` from pos on, -1 when the
\* bytes are not such a run
RECURSIVE RawPushRun(_, _)
RawPushRun(interior, pos) ==
    IF pos = Len(interior) THEN 0
    ELSE LET b == At(interior, pos)
         IN  IF b >= 1 /\ b <= 75 /\ pos + 1 + b <= Len(interior)
             THEN LET r == RawPushRun(interior, pos + 1 + b)
                  IN  IF r < 0 THEN -1 ELSE r + 1
             ELSE -1

IsBareMultisig(scr) ==
    /\ Len(scr) >= 3
    /\ scr[1] >= 81 /\ scr[1] <= 96
    /\ Last(scr) = 174
    /\ Last2(scr) >= 81 /\ Last2(scr) <= 96
    /\ Last2(scr) >= scr[1]
    /\ RawPushRun(Slice(scr, 1, Len(scr) - 2), 0) = Last2(scr) - 80

\* C2: parse_script returns MULTISIG with reqSigs = m and pubKeys = n if and
\* only if the script is OP_m, exactly n raw pushes (length byte 0x01..0x4b)
\* that exactly fill the interior, OP_n with n >= m, OP_CHECKMULTISIG; an
\* interior with a zero-length push, a PUSHDATA push, a non-push opcode, a
\* push running past the interior or a number of pushes other than n is not
\* MULTISIG.
C2_StrictMultisig ==
    fn = "parse_script" =>
        /\ result.type = "MULTISIG" <=> IsBareMultisig(script)
        /\ result.type = "MULTISIG" =>
              /\ result.reqSigs = script[1] - 80
              /\ result.pubKeys = Last2(script) - 80

-----------------------------------------------------------------------------
(* C3 *)

OpReturnClassification(scr) ==
    LET l == Len(scr)
    IN  IF l = 1
        THEN [nType |-> 3, type |-> "NULL_DATA", reqSigs |-> 0, data |-> <<>>]
        ELSE IF scr[2] < 76 /\ scr[2] = l - 2
        THEN [nType |-> 3, type |-> "NULL_DATA", reqSigs |-> 0,
              data |-> SliceFrom(scr, 2)]
        ELSE IF scr[2] = 76 /\ l > 2 /\ scr[3] = l - 3 /\ scr[3] <= 80
        THEN [nType |-> 3, type |-> "NULL_DATA", reqSigs |-> 0,
              data |-> SliceFrom(scr, 3)]
        ELSE [nType |-> 8, type |-> "NULL_DATA_NON_STANDARD", reqSigs |-> 0,
              script |-> scr]

\* C3: every script whose first byte is OP_RETURN is classified NULL_DATA or
\* NULL_DATA_NON_STANDARD with reqSigs 0 and never as another type, by the
\* four cases of the OP_RETURN templates, whatever its length (23, 25, 35 and
\* 67 included).
C3_OpReturnAlwaysNullData ==
    (fn = "parse_script" /\ script # <<>> /\ script[1] = OP_RETURN) =>
        /\ result.type \in {"NULL_DATA", "NULL_DATA_NON_STANDARD"}
        /\ result.reqSigs = 0
        /\ result = OpReturnClassification(script)

-----------------------------------------------------------------------------
(* C4 *)

\* the tally the generic walk accumulates over a script
Tally(scr) == GenericWalk(scr, WalkInit).req_sigs

\* C4: parse_script returns a classification for every byte sequence, never
\* raising and never indexing outside the buffer; when the generic walk meets
\* a push whose length field or payload runs past the end of the buffer, the
\* result is NON_STANDARD carrying the raw script and the tally of the units
\* before that push.
C4_Total ==
    fn = "parse_script" =>
        /\ result.type \in ClaimedTypes
        /\ (result.type = "NON_STANDARD" /\ ~WellFormed(script)) =>
              /\ result.script = script
              /\ result.reqSigs = Tally(Slice(script, 0, FirstMalformed(script)))

\* a PUSHDATA2 cut short, met by the generic walk after units that were
\* tallied
C4_Witness ==
    /\ fn = "parse_script"
    /\ result.type = "NON_STANDARD"
    /\ ~WellFormed(script)
    /\ FirstMalformed(script) > 0
    /\ At(script, FirstMalformed(script)) = OP_PUSHDATA2
    /\ result.reqSigs > 0

-----------------------------------------------------------------------------
(* C5 *)

\* sub occurs at no unit start of scr
NoAlignedMatch(scr, sub) ==
    \A k \in UnitOffsets(scr, 0) : Slice(scr, k, k + Len(sub)) # sub

\* C5: for a script that is a concatenation of well-formed units and a
\* non-empty sub_script that occurs at no unit start of the script,
\* delete_from_script returns the script byte for byte (also when sub_script
\* occurs inside a push payload, and when the trailing units are longer than
\* sub_script).
C5_NoMatchUntouched ==
    ( /\ fn = "delete_from_script"
      /\ sub_script # <<>>
      /\ WellFormed(script)
      /\ NoAlignedMatch(script, sub_script) ) =>
        result = [raised |-> FALSE, out |-> script]

-----------------------------------------------------------------------------
(* C6 *)

\* the units of scr from pos on, in order, without the units equal to sub
RECURSIVE UnitsExcept(_, _, _)
UnitsExcept(scr, pos, sub) ==
    IF pos >= Len(scr) THEN <<>>
    ELSE LET n == UnitLen(scr, pos)
             u == Slice(scr, pos, pos + n)
         IN  (IF u = sub THEN <<>> ELSE u) \o UnitsExcept(scr, pos + n, sub)

\* C6: for a script that is a concatenation of well-formed units and a
\* sub_script that is one non-push opcode byte, delete_from_script returns
\* the units of the script, in order, that are not the one-byte unit equal to
\* sub_script; bytes equal to sub_script inside the payload or length field
\* of a push are kept.
C6_RemovesAlignedOpcode ==
    ( /\ fn = "delete_from_script"
      /\ WellFormed(script)
      /\ Len(sub_script) = 1
      /\ sub_script[1] > OP_PUSHDATA4 ) =>
        result = [raised |-> FALSE, out |-> UnitsExcept(script, 0, sub_script)]

-----------------------------------------------------------------------------
(* C7 *)

\* scr has a push cut short, or an opcode RAW_OPCODE has no name for
HasDecodeFailure(scr) ==
    \/ ~WellFormed(scr)
    \/ \E k \in UnitOffsets(scr, 0) :
          ~IsPushHead(At(scr, k)) /\ ~InOpcodeTable(At(scr, k))

\* C7: in asm and in non-asm mode, decode_script of a script with a decode
\* failure (a push whose length field or payload runs past the end of the
\* buffer, or an opcode absent from the opcode table) is exactly the one
\* token [SCRIPT_DECODE_FAILED], with no token of the units before the
\* failure; the result for a script with no failure holds no such token.
C7_AllOrNothing ==
    fn = "decode_script" =>
        IF HasDecodeFailure(script)
        THEN result = <<SCRIPT_DECODE_FAILED>>
        ELSE \A i \in 1..Len(result) : result[i] # SCRIPT_DECODE_FAILED

-----------------------------------------------------------------------------
(* C8 *)

\* 0x30 || len(sig) - 3 || 0x02 || len(r) || r || 0x02 || len(s) || s || suffix
Envelope(total, r, s, suffix) ==
    <<48, total - 3, 2, Len(r)>> \o r \o <<2, Len(s)>> \o s \o <<suffix>>

\* C8: for every sig that is_valid_signature_encoding accepts,
\* parse_signature returns r = sig[4 : 4 + len_r] and
\* s = sig[6 + len_r : 6 + len_r + len_s], and the envelope rebuilt from
\* them and the suffix byte equals sig byte for byte.
C8_DecodeRoundTrip ==
    (fn = "parse_signature" /\ is_valid_signature_encoding(sig) = "True") =>
        LET len_r == At(sig, 3)
            len_s == At(sig, 5 + len_r)
        IN  /\ result.raised = ""
            /\ result.r = Slice(sig, 4, 4 + len_r)
            /\ result.s = Slice(sig, 6 + len_r, 6 + len_r + len_s)
            /\ Envelope(Len(sig), result.r, result.s, Last(sig)) = sig

-----------------------------------------------------------------------------
(* C9 *)

\* the rules of the claim, in the order it lists them
StrictDER(g) ==
    /\ 9 <= Len(g) /\ Len(g) <= 73
    /\ g[1] = 48
    /\ g[2] = Len(g) - 3
    /\ 5 + g[4] < Len(g)
    /\ LET len_r == g[4]
           len_s == g[6 + len_r]
       IN  /\ len_r + len_s + 7 = Len(g)
           /\ g[3] = 2
           /\ len_r # 0
           /\ g[5] < 128
           /\ ~(g[5] = 0 /\ ~(len_r = 1 \/ g[6] >= 128))
           /\ g[len_r + 5] = 2
           /\ len_s # 0
           /\ g[len_r + 7] < 128
           /\ ~(g[len_r + 7] = 0 /\ ~(len_s = 1 \/ g[len_r + 8] >= 128))

\* r (resp. s) starts with a zero byte that its next byte does not need
RedundantZeroInR(g) ==
    Len(g) >= 6 /\ g[4] > 1 /\ g[5] = 0 /\ g[6] < 128

RedundantZeroInS(g) ==
    /\ Len(g) >= 6
    /\ g[4] + 8 <= Len(g)
    /\ g[g[4] + 6] > 1
    /\ g[g[4] + 7] = 0
    /\ g[g[4] + 8] < 128

\* C9: is_valid_signature_encoding returns a boolean for every byte sequence
\* without indexing outside it, True exactly when every rule of the envelope
\* holds; it is False for a sig shorter than 9 or longer than 73 bytes and
\* for a sig with a redundant leading zero in r or in s.
C9_StrictValidator ==
    fn = "is_valid_signature_encoding" =>
        /\ result \in {"True", "False"}
        /\ result = "True" <=> StrictDER(sig)
        /\ (Len(sig) < 9 \/ Len(sig) > 73) => result = "False"
        /\ (RedundantZeroInR(sig) \/ RedundantZeroInS(sig)) => result = "False"

\* an accepted signature whose r is a single zero byte and whose s keeps the
\* zero byte its high bit forces
C9_Witness ==
    /\ fn = "is_valid_signature_encoding"
    /\ result = "True"
    /\ At(sig, 3) = 1 /\ At(sig, 4) = 0
    /\ At(sig, 6) = 2 /\ At(sig, 7) = 0 /\ At(sig, 8) = 128

-----------------------------------------------------------------------------
(* C10 *)

\* the shortest header valid for a payload of n bytes
ShortestHeader(n) ==
    IF n <= 75 THEN <<n>>
    ELSE IF n <= 255 THEN <<76, n>>
    ELSE IF n <= 65535 THEN <<77, n % 256, n \div 256>>
    ELSE <<78, n % 256, (n \div 256) % 256, (n \div 65536) % 256,
           n \div 16777216>>

\* C10: read_opcode on a stream positioned at the start of op_push_data(p)
\* returns the payload p and consumes the whole encoding, and the header of
\* the encoding is the shortest form valid for len(p).
C10_PushRoundTrip ==
    fn = "read_opcode" =>
        /\ script = ShortestHeader(Len(data)) \o data
        /\ ~result.raised
        /\ result.has_data
        /\ result.data = data
        /\ result.pos = Len(script)

-----------------------------------------------------------------------------
(* C11 *)

\* the offsets at which the units of a well-formed script start, in order
RECURSIVE UnitSeq(_, _)
UnitSeq(scr, pos) ==
    IF pos >= Len(scr) THEN <<>>
    ELSE <<pos>> \o UnitSeq(scr, pos + UnitLen(scr, pos))

IsSmallInt(b) == b >= 81 /\ b <= 96

\* a push unit of the walk: a raw push, the empty push OP_0 included (the
\* walk takes every byte below 0x4c as a push), or a PUSHDATA1/2/4 push
IsPushUnit(b) == b <= 78

\* what the claim adds for the OP_CHECKMULTISIG[VERIFY] that is unit i of
\* the units U of scr: m when the units before it are OP_m, k pushes, OP_k
\* with 1 <= m <= k <= 16, and 20 otherwise
ClaimedThreshold(scr, U, i) ==
    IF i >= 2 /\ IsSmallInt(At(scr, U[i - 1]))
    THEN LET k == At(scr, U[i - 1]) - 80
         IN  IF /\ i - 2 - k >= 1
                /\ \A j \in (i - 1 - k)..(i - 2) : IsPushUnit(At(scr, U[j]))
                /\ IsSmallInt(At(scr, U[i - 2 - k]))
                /\ At(scr, U[i - 2 - k]) - 80 <= k
             THEN At(scr, U[i - 2 - k]) - 80
             ELSE 20
    ELSE 20

\* the sum the claim gives for the units i..Len(U)
RECURSIVE ClaimedTally(_, _, _)
ClaimedTally(scr, U, i) ==
    IF i > Len(U) THEN 0
    ELSE LET b == At(scr, U[i])
         IN  (IF b \in {172, 173} THEN 1
              ELSE IF b \in {174, 175} THEN ClaimedThreshold(scr, U, i)
              ELSE 0) + ClaimedTally(scr, U, i + 1)

\* C11: for a script that matches no template, the reqSigs of the generic
\* walk is the sum over the opcode units of the script (never over bytes of
\* a push payload) of 1 for each OP_CHECKSIG[VERIFY] and, for each
\* OP_CHECKMULTISIG[VERIFY], of m when it is immediately preceded by OP_m,
\* k push units (raw or PUSHDATA1/2/4, each counted) and OP_k with
\* 1 <= m <= k <= 16, and of 20 otherwise.
C11_GenericTally ==
    ( /\ fn = "parse_script"
      /\ script # <<>>
      /\ result.type = "NON_STANDARD"
      /\ WellFormed(script) ) =>
        result.reqSigs = ClaimedTally(script, UnitSeq(script, 0), 1)


(* C12 *)
\* every opcode of scr that is not a push has a name in the opcode table
NamedOpcodes(scr) ==
    \A k \in UnitOffsets(scr, 0) : At(scr, k) <= OP_PUSHDATA4 \/ InOpcodeTable(At(scr, k))

\* C12: on a script that is a concatenation of well-formed units (all of
\* its opcodes named), the cursor of parse_script's generic walk, the cursor
\* of decode_script (asm and non-asm) and the cursor of delete_from_script
\* each visit exactly the unit start offsets of the script, advancing 1 + n
\* over a raw push, 2 + n over PUSHDATA1, 3 + n over PUSHDATA2, 5 + n over
\* PUSHDATA4 and 1 over any other opcode, and none of them raises
C12_WalksAgree ==
    ( /\ fn \in {"walk_parse_script", "walk_decode_script",
                 "walk_delete_from_script"}
      /\ WellFormed(script)
      /\ NamedOpcodes(script) ) =>
        /\ ~result.raised
        /\ result.cursors = UnitSeq(script, 0)
====
